---- MODULE Spec2Model ----
(***************************************************************************)
(* Name splitting and rendering of krr-up/bibliography.                    *)
(*                                                                         *)
(* A string is a sequence of one-character strings; a word list is a       *)
(* sequence of strings.  The tokenizer (split_latex_to_sections), the      *)
(* splitter (splitname), the first-name abbreviation, the renderers and    *)
(* the methods of NameFormatter are operators computed as the Python code  *)
(* computes them; the actions apply them to inputs drawn from bounded      *)
(* sets.                                                                   *)
(***************************************************************************)
EXTENDS Integers, Sequences, FiniteSets, TLC

VARIABLES
    name,       \* the input string of splitname / format_name
    strict,     \* the strict_mode argument
    pc,         \* position of the pipeline
    err,        \* "" or the Python exception type that propagated
    site,       \* "" or the statement that raised
    sections,   \* split_latex_to_sections: words of each section
    cases,      \* split_latex_to_sections: case of each word
    parts,      \* the dictionary returned by splitname
    out,        \* the rendered string
    out2,       \* the rendering of the rendered string (second application)
    variant,    \* "" or the module whose renderer or configuration ran
    cfg,        \* a value of the special_names configuration table
    synth,      \* the string config_special_names hands to splitname
    corpus,     \* the dictionaries splitname returned for the names of dbs
    special_names,          \* NameFormatter.special_names
    partial_special_names,  \* NameFormatter.partial_special_names
    result      \* what the last call of a NameFormatter method returned

\* The state of a NameFormatter and of its last call.
formatter == <<corpus, special_names, partial_special_names, result>>

vars == <<name, strict, pc, err, site, sections, cases, parts, out, out2,
          variant, cfg, synth, formatter>>

----------------------------------------------------------------------------
(* Characters *)

BS == "\\"

Upper == {"A", "B", "C", "D", "E", "F", "G", "H", "I", "J", "K", "L", "M",
          "N", "O", "P", "Q", "R", "S", "T", "U", "V", "W", "X", "Y", "Z"}
Lower == {"a", "b", "c", "d", "e", "f", "g", "h", "i", "j", "k", "l", "m",
          "n", "o", "p", "q", "r", "s", "t", "u", "v", "w", "x", "y", "z"}

\* src/splitnames.py:12
whitespace == {" ", "~", "\r", "\n", "\t"}

isalpha(c) == c \in Upper \cup Lower
isupper(c) == c \in Upper

----------------------------------------------------------------------------
(* Sequence helpers standing for Python's list and str primitives *)

Last(s) == s[Len(s)]
Front(s) == SubSeq(s, 1, Len(s) - 1)

\* s[a:b] with 0-based, non-negative a and b
Slice(s, a, b) ==
    LET hi == IF b > Len(s) THEN Len(s) ELSE b
    IN  IF a >= hi THEN <<>> ELSE SubSeq(s, a + 1, hi)

RECURSIVE Sum(_)
Sum(s) == IF s = <<>> THEN 0 ELSE Head(s) + Sum(Tail(s))

\* sep.join(ws)
RECURSIVE Join(_, _)
Join(ws, sep) ==
    IF ws = <<>> THEN <<>>
    ELSE IF Len(ws) = 1 THEN ws[1]
    ELSE ws[1] \o sep \o Join(Tail(ws), sep)

\* " ".join(ws)
JoinSp(ws) == Join(ws, <<" ">>)

\* c in s
Contains(s, c) == \E i \in 1..Len(s) : s[i] = c

----------------------------------------------------------------------------
(* split_latex_to_sections, src/splitnames.py:4-153 *)

\* The three raise statements of split_latex_to_sections build their message
\* with .format(name); the function's parameter is latex_string and the
\* module has no global called name, so evaluating the argument raises
\* NameError before InvalidName is constructed.
TokenizerRaise == "NameError"

\* The raise statement of splitname formats its own parameter name.
SplitnameRaise == "InvalidName"

\* State of the scan before the first character (lines 17-24).
\* specialchar starts as None and is only ever tested for truth.
ScanInit ==
    [sections |-> << <<>> >>, cases |-> << <<>> >>, word |-> <<>>, case |-> -1,
     level |-> 0, bracestart |-> FALSE, controlseq |-> TRUE,
     specialchar |-> FALSE, err |-> "", site |-> ""]

CaseOf(c) == IF isupper(c) THEN 1 ELSE 0

AppendToLast(ss, x) == [ss EXCEPT ![Len(ss)] = Append(@, x)]

\* Lines 59-65: start of a braced expression.
OpenBrace(st) ==
    [st EXCEPT !.level = @ + 1, !.word = Append(@, "{"),
               !.bracestart = TRUE, !.controlseq = FALSE,
               !.specialchar = FALSE]

\* CloseBrace without the repair of non-strict mode: the unmatched brace is
\* copied and no opening brace is put in front of the word.
CloseBraceNoRepair(st, strictMode) ==
    IF st.level > 0 THEN
        [st EXCEPT !.bracestart = FALSE, !.level = @ - 1,
                   !.controlseq = FALSE, !.specialchar = FALSE,
                   !.word = Append(@, "}")]
    ELSE IF strictMode THEN
        [st EXCEPT !.bracestart = FALSE, !.err = TokenizerRaise,
                   !.site = "unmatched"]
    ELSE
        [st EXCEPT !.bracestart = FALSE,
                   !.controlseq = FALSE, !.specialchar = FALSE,
                   !.word = Append(@, "}")]

\* Lines 71-86: end of a braced expression.
CloseBrace(st, strictMode) ==
    IF st.level > 0 THEN
        [st EXCEPT !.bracestart = FALSE, !.level = @ - 1,
                   !.controlseq = FALSE, !.specialchar = FALSE,
                   !.word = Append(@, "}")]
    ELSE IF strictMode THEN
        [st EXCEPT !.bracestart = FALSE, !.err = TokenizerRaise,
                   !.site = "unmatched"]
    ELSE
        [st EXCEPT !.bracestart = FALSE,
                   !.controlseq = FALSE, !.specialchar = FALSE,
                   !.word = <<"{">> \o @ \o <<"}">>]

\* Lines 89-105: a character inside a braced expression.
InsideBrace(st, char) ==
    IF st.controlseq THEN
        [st EXCEPT !.bracestart = FALSE,
                   !.controlseq = isalpha(char),
                   !.word = Append(@, char)]
    ELSE IF st.specialchar /\ st.case = -1 /\ isalpha(char) THEN
        [st EXCEPT !.bracestart = FALSE, !.case = CaseOf(char),
                   !.word = Append(@, char)]
    ELSE
        [st EXCEPT !.bracestart = FALSE, !.word = Append(@, char)]

\* Lines 109-128: a comma or whitespace outside braces ends the word, and a
\* comma ends the section while there are fewer than three.
EndWord(st, char, strictMode) ==
    LET a == IF st.word # <<>>
             THEN [st EXCEPT !.bracestart = FALSE,
                             !.sections = AppendToLast(@, st.word),
                             !.word = <<>>,
                             !.cases = AppendToLast(@, st.case),
                             !.case = -1,
                             !.controlseq = FALSE,
                             !.specialchar = FALSE]
             ELSE [st EXCEPT !.bracestart = FALSE]
    IN  IF char = "," THEN
            IF Len(a.sections) < 3 THEN
                [a EXCEPT !.sections = Append(@, <<>>),
                          !.cases = Append(@, <<>>)]
            ELSE IF strictMode THEN
                [a EXCEPT !.err = TokenizerRaise, !.site = "commas"]
            ELSE a
        ELSE a

\* Lines 131-136: a regular character.
RegularChar(st, char) ==
    [st EXCEPT !.bracestart = FALSE, !.word = Append(@, char),
               !.case = IF @ = -1 /\ isalpha(char) THEN CaseOf(char) ELSE @]

\* Lines 58-136: one character that is not the start of a copied escape.
ScanChar(st, char, strictMode) ==
    IF char = "{" THEN OpenBrace(st)
    ELSE IF char = "}" THEN CloseBrace(st, strictMode)
    ELSE IF st.level > 0 THEN InsideBrace(st, char)
    ELSE IF char = "," \/ char \in whitespace THEN EndWord(st, char, strictMode)
    ELSE RegularChar(st, char)

\* ScanEscape without the continue of line 56: every escaped character falls
\* through to the normal case, as an escaped whitespace does.
ScanEscapeFallThrough(st, escaped, strictMode) ==
    ScanChar([st EXCEPT !.word = Append(@, BS)], escaped, strictMode)

\* Lines 30-56: a backslash and the character next(nameiter) returns.
ScanEscape(st, escaped, strictMode) ==
    IF escaped \in whitespace THEN
        ScanChar([st EXCEPT !.word = Append(@, BS)], escaped, strictMode)
    ELSE
        LET a == IF st.bracestart THEN
                     [st EXCEPT !.bracestart = FALSE,
                                !.controlseq = isalpha(escaped),
                                !.specialchar = TRUE]
                 ELSE IF st.case = -1 /\ isalpha(escaped) THEN
                     [st EXCEPT !.case = CaseOf(escaped)]
                 ELSE st
        IN  [a EXCEPT !.word = @ \o <<BS, escaped>>]

\* Lines 27-136: the for loop from 1-based position i on.
RECURSIVE ScanFrom(_, _, _, _)
ScanFrom(s, i, st, strictMode) ==
    IF st.err # "" \/ i > Len(s) THEN st
    ELSE IF s[i] = BS THEN
        IF i = Len(s)
        THEN [st EXCEPT !.err = "StopIteration", !.site = "next"]
        ELSE ScanFrom(s, i + 2, ScanEscape(st, s[i + 1], strictMode), strictMode)
    ELSE ScanFrom(s, i + 1, ScanChar(st, s[i], strictMode), strictMode)

\* "}" * n
RECURSIVE Closers(_)
Closers(n) == IF n = 0 THEN <<>> ELSE <<"}">> \o Closers(n - 1)

\* Lines 138-153: after the loop.
ScanFinish(st, strictMode) ==
    IF st.err # "" THEN st
    ELSE IF st.level > 0 /\ strictMode THEN
        [st EXCEPT !.err = TokenizerRaise, !.site = "unterminated"]
    ELSE
        LET w == st.word \o Closers(st.level)
        IN  IF w # <<>>
            THEN [st EXCEPT !.word = w, !.level = 0,
                            !.sections = AppendToLast(@, w),
                            !.cases = AppendToLast(@, st.case)]
            ELSE [st EXCEPT !.word = w, !.level = 0]

split_latex_to_sections(s, strictMode) ==
    ScanFinish(ScanFrom(s, 1, ScanInit, strictMode), strictMode)

----------------------------------------------------------------------------
(* splitname, src/splitnames.py:156-294 *)

\* The parts dictionary; blank stands for the empty dictionary {}.
NoParts == [blank |-> TRUE, first |-> <<>>, von |-> <<>>, last |-> <<>>,
            jr |-> <<>>]
EmptyParts == [NoParts EXCEPT !.blank = FALSE]

Returned(p) == [err |-> "", site |-> "", parts |-> p]
Raised(e, where) == [err |-> e, site |-> where, parts |-> NoParts]

\* [i for i, e in enumerate(cases) if e], 0-based: every non-zero case,
\* the caseless -1 included.
RECURSIVE CapitalPositions(_, _)
CapitalPositions(cs, i) ==
    IF i > Len(cs) THEN <<>>
    ELSE (IF cs[i] # 0 THEN <<i - 1>> ELSE <<>>) \o CapitalPositions(cs, i + 1)

\* Lines 241-254: three or more words, the second not read as an initial.
SplitByCapitals(p0, cs) ==
    IF Sum(cs) > 2 THEN
        LET cp == CapitalPositions(cs, 1)
            third == cp[Len(cp) - 2]
            second == cp[Len(cp) - 1]
        IN  Returned([EmptyParts EXCEPT !.first = Slice(p0, 0, third + 1),
                                        !.von = Slice(p0, third + 1, second),
                                        !.last = Slice(p0, second, Len(p0))])
    ELSE
        Returned([EmptyParts EXCEPT !.first = Slice(p0, 0, 1),
                                    !.last = Slice(p0, 1, Len(p0))])

\* Lines 237-254: three or more words.
SplitLongSection(p0, cs) ==
    IF Len(p0[2]) < 2 THEN
        Raised("IndexError", "initial")
    ELSE IF p0[2][2] = "." THEN
        Returned([EmptyParts EXCEPT !.first = Slice(p0, 0, 2),
                                    !.last = Slice(p0, 2, Len(p0))])
    ELSE SplitByCapitals(p0, cs)

\* SplitOneSection with a lowercase first word of two read as a von part.
SplitOneSectionByCase(p0, cs) ==
    IF Len(p0) = 1 THEN
        Returned([EmptyParts EXCEPT !.last = p0])
    ELSE IF Len(p0) = 2 THEN
        IF cs[1] = 0
        THEN Returned([EmptyParts EXCEPT !.von = Slice(p0, 0, 1),
                                         !.last = Slice(p0, 1, Len(p0))])
        ELSE Returned([EmptyParts EXCEPT !.first = Slice(p0, 0, 1),
                                         !.last = Slice(p0, 1, Len(p0))])
    ELSE SplitLongSection(p0, cs)

\* Lines 225-254, form 1: "First von Last".
SplitOneSection(p0, cs) ==
    IF Len(p0) = 1 THEN
        Returned([EmptyParts EXCEPT !.last = p0])
    ELSE IF Len(p0) = 2 THEN
        Returned([EmptyParts EXCEPT !.first = Slice(p0, 0, 1),
                                    !.last = Slice(p0, 1, Len(p0))])
    ELSE SplitLongSection(p0, cs)

\* len(lcases) - lcases[::-1].index(0): the 1-based position of the last 0.
LastZero(lcases) ==
    CHOOSE i \in 1..Len(lcases) :
        lcases[i] = 0 /\ \A j \in (i + 1)..Len(lcases) : lcases[j] # 0

\* SplitVonLast keeping only the words after the split point.
SplitLastOnly(p, sec0, lcases) ==
    IF Len(sec0) = 1 THEN [p EXCEPT !.last = sec0]
    ELSE IF \E i \in 1..Len(lcases) : lcases[i] = 0 THEN
        LET found == LastZero(lcases)
            split == IF found = Len(lcases) THEN 0 ELSE found
        IN  [p EXCEPT !.last = Slice(sec0, split, Len(sec0))]
    ELSE [p EXCEPT !.last = sec0]

\* Lines 269-291: von and last from the first section.
SplitVonLast(p, sec0, lcases) ==
    IF Len(sec0) = 1 THEN [p EXCEPT !.last = sec0]
    ELSE IF \E i \in 1..Len(lcases) : lcases[i] = 0 THEN
        LET found == LastZero(lcases)
            split == IF found = Len(lcases) THEN 0 ELSE found
        IN  [p EXCEPT !.von = Slice(sec0, 0, split),
                      !.last = Slice(sec0, split, Len(sec0))]
    ELSE [p EXCEPT !.last = sec0]

\* Lines 256-291, forms 2 and 3: "von Last, First", "von Last, jr, First".
SplitCommaSections(secs, cs) ==
    LET n == Len(secs)
        withFirst == IF secs[n] # <<>> /\ secs[n][1] # <<>>
                     THEN [EmptyParts EXCEPT !.first = secs[n]]
                     ELSE EmptyParts
        withJr == IF n = 3 /\ secs[2] # <<>> /\ secs[2][1] # <<>>
                  THEN [withFirst EXCEPT !.jr = secs[2]]
                  ELSE withFirst
    IN  Returned(SplitVonLast(withJr, secs[1], cs[1]))

\* Lines 205-294: splitname after its call of split_latex_to_sections
\* returned the scan state t.
SplitSections(t, strictMode) ==
    IF Last(t.sections) = <<>> /\ Len(t.sections) > 1 /\ strictMode
    THEN Raised(SplitnameRaise, "trailing")
    ELSE
        LET secs == IF Last(t.sections) = <<>>
                    THEN Front(t.sections) ELSE t.sections
            cs == IF Last(t.sections) = <<>>
                  THEN Front(t.cases) ELSE t.cases
        IN  IF secs = <<>> \/ \A i \in 1..Len(secs) : secs[i] = <<>>
            THEN Returned(NoParts)
            ELSE IF Len(secs) = 1
            THEN SplitOneSection(secs[1], cs[1])
            ELSE SplitCommaSections(secs, cs)

\* Lines 203-294.
splitname(s, strictMode) ==
    LET t == split_latex_to_sections(s, strictMode)
    IN  IF t.err # "" THEN Raised(t.err, t.site)
        ELSE SplitSections(t, strictMode)

----------------------------------------------------------------------------
(* First-name abbreviation and rendering *)

\* format_first_name without the test for a leading escaped character.
format_first_name_plain(w) ==
    IF Len(w) > 2 THEN <<w[1], ".">> ELSE w

\* src/last_name_format_transition/authfmt_t.py:29-32, src/authfmt.py:17-20
\* and NameFormatter._format_first_name, src/bibfmt.py:233-239.
format_first_name(w) ==
    IF Len(w) > 2 /\ ~(w[1] = "{" /\ w[2] = BS) THEN <<w[1], ".">> ELSE w

\* The copy of src/authfmt.py:17-20.
format_first_name_old(w) ==
    IF Len(w) > 2 /\ ~(w[1] = "{" /\ w[2] = BS) THEN <<w[1], ".">> ELSE w

\* The copy of src/bibfmt.py:233-239, NameFormatter._format_first_name.
NameFormatter_format_first_name(w) ==
    IF Len(w) > 2 /\ ~(w[1] = "{" /\ w[2] = BS) THEN <<w[1], ".">> ELSE w

\* format_name_dict: the first name is joined, abbreviated as one string and
\* stored as a one-element list; the empty dictionary has no "first" key.
format_name_dict(p) ==
    IF p.blank THEN p
    ELSE [p EXCEPT !.first = <<format_first_name(JoinSp(p.first))>>]

\* match_braces: the scan from 1-based position i with the stack of open
\* positions and the list of matched pairs, positions 0-based as in Python.
RECURSIVE MatchFrom(_, _, _, _)
MatchFrom(s, i, stack, matched) ==
    IF i > Len(s) THEN matched
    ELSE IF s[i] = "{" THEN MatchFrom(s, i + 1, Append(stack, i - 1), matched)
    ELSE IF s[i] = "}" /\ stack # <<>> THEN
        MatchFrom(s, i + 1, Front(stack), Append(matched, <<Last(stack), i - 1>>))
    ELSE MatchFrom(s, i + 1, stack, matched)

match_braces(s) == MatchFrom(s, 1, <<>>, <<>>)

\* The test shared by name_dict_to_str, _join_name and config_special_names:
\* no pair, or the pair closed last does not span positions 0..len-1.
NotEnclosed(s) ==
    LET mb == match_braces(s)
    IN  mb = <<>> \/ Last(mb)[1] # 0 \/ Last(mb)[2] # Len(s) - 1

\* WrapLast without the test for an enclosing pair.
WrapLastAlways(last) ==
    IF Contains(last, " ") THEN <<"{">> \o last \o <<"}">> ELSE last

\* The last name as the renderers emit it before spacing.
WrapLast(last) ==
    IF Contains(last, " ") /\ NotEnclosed(last)
    THEN <<"{">> \o last \o <<"}">>
    ELSE last

\* The running "previous" flag of the renderers that update it.
Spaced(first, von, last, jr) ==
    LET p1 == first # <<>>
        v == IF p1 /\ von # <<>> THEN <<" ">> \o von ELSE von
        p2 == p1 \/ v # <<>>
        l == IF p2 /\ last # <<>> THEN <<" ">> \o last ELSE last
        p3 == p2 \/ l # <<>>
        j == IF p3 /\ jr # <<>> THEN <<" ">> \o jr ELSE jr
    IN  first \o v \o l \o j

\* authfmt_t.name_dict_to_str
name_dict_to_str_t(p) ==
    Spaced(JoinSp(p.first), JoinSp(p.von), WrapLast(JoinSp(p.last)),
           JoinSp(p.jr))

\* authfmt.name_dict_to_str: previous is computed once, from first alone,
\* and the last name is not wrapped.
name_dict_to_str(p) ==
    LET first == JoinSp(p.first)
        von == JoinSp(p.von)
        last == JoinSp(p.last)
        jr == JoinSp(p.jr)
        previous == first # <<>>
    IN  first
        \o (IF previous /\ von # <<>> THEN <<" ">> \o von ELSE von)
        \o (IF previous /\ last # <<>> THEN <<" ">> \o last ELSE last)
        \o (IF previous /\ jr # <<>> THEN <<" ">> \o jr ELSE jr)

\* The von part as _join_name emits it before spacing.
ProtectVon(von) ==
    IF Len(von) > 1 /\ isupper(von[1])
    THEN <<"{", von[1], "}">> \o Tail(von)
    ELSE von

\* NameFormatter._join_name
join_name(p) ==
    Spaced(JoinSp(p.first), ProtectVon(JoinSp(p.von)),
           WrapLast(JoinSp(p.last)), JoinSp(p.jr))

\* authfmt_t.format_name with an empty CONFIG_SPECIAL_NAMES: the lookup of
\* alpha_name fails and the name goes through splitname (strict by default),
\* format_name_dict and name_dict_to_str.
format_name(s) ==
    LET r == splitname(s, TRUE)
    IN  IF r.err # "" THEN [err |-> r.err, site |-> r.site, out |-> <<>>]
        ELSE [err |-> "", site |-> "",
              out |-> name_dict_to_str_t(format_name_dict(r.parts))]

----------------------------------------------------------------------------
(* config_special_names, src/last_name_format_transition/authfmt_t.py:89-111
   and src/authfmt.py:48-56 *)

\* s.split(c): the pieces of s between the occurrences of c, from position i
\* on, cur being the piece collected so far.
RECURSIVE SplitFrom(_, _, _, _)
SplitFrom(s, c, i, cur) ==
    IF i > Len(s) THEN <<cur>>
    ELSE IF s[i] = c THEN <<cur>> \o SplitFrom(s, c, i + 1, <<>>)
    ELSE SplitFrom(s, c, i + 1, Append(cur, s[i]))

SplitOn(s, c) == SplitFrom(s, c, 1, <<>>)

\* The characters str.strip() removes, of those a model string can hold.
StripSet == {" ", "\t", "\n", "\r"}

RECURSIVE LStrip(_)
LStrip(s) == IF s # <<>> /\ Head(s) \in StripSet THEN LStrip(Tail(s)) ELSE s

RECURSIVE RStrip(_)
RStrip(s) == IF s # <<>> /\ Last(s) \in StripSet THEN RStrip(Front(s)) ELSE s

Strip(s) == RStrip(LStrip(s))

\* [w.strip() for w in name.split("|")]
Components(value) ==
    LET raw == SplitOn(value, "|")
    IN  [i \in 1..Len(raw) |-> Strip(raw[i])]

\* SynthName without the rotation: the parts in the order written.
SynthNameInOrder(comps) == Join(comps, <<",", " ">>)

\* ", ".join(name[1:] + [name[0]])
SynthName(comps) == Join(Tail(comps) \o <<comps[1]>>, <<",", " ">>)

\* authfmt_t lines 96-103: a one-part value with a space is wrapped in braces
\* unless one pair already encloses it.
LiteralT(c) ==
    IF Contains(c, " ") /\ NotEnclosed(c) THEN <<"{">> \o c \o <<"}">> ELSE c

\* One entry of the table as the module called module computes it: only
\* authfmt_t wraps a one-part value, and each uses its own name_dict_to_str.
ConfigEntry(value, module) ==
    LET comps == Components(value)
    IN  IF Len(comps) = 1
        THEN [err |-> "", site |-> "", synth |-> <<>>, parts |-> NoParts,
              out |-> IF module = "authfmt_t" THEN LiteralT(comps[1])
                      ELSE comps[1]]
        ELSE LET sy == SynthName(comps)
                 r == splitname(sy, TRUE)
                 f == format_name_dict(r.parts)
             IN  IF r.err # ""
                 THEN [err |-> r.err, site |-> r.site, synth |-> sy,
                       parts |-> NoParts, out |-> <<>>]
                 ELSE [err |-> "", site |-> "", synth |-> sy, parts |-> f,
                       out |-> IF module = "authfmt_t"
                               THEN name_dict_to_str_t(f)
                               ELSE name_dict_to_str(f)]

config_special_names_t(value) == ConfigEntry(value, "authfmt_t")
config_special_names(value) == ConfigEntry(value, "authfmt")

----------------------------------------------------------------------------
(* NameFormatter, src/bibfmt.py:140-311.  bibfmt imports splitname from
   bibtexparser.customization; the dictionary that call returns for a name
   is an input here. *)

\* str.split(): the words between runs of blanks.
SplitWords(s) == SelectSeq(SplitOn(s, " "), LAMBDA w : w # <<>>)

\* special_names[key] = name_dict
Put(table, key, name_dict) ==
    [k \in (DOMAIN table) \cup {key} |->
        IF k = key THEN name_dict ELSE table[k]]

\* The body of the loop of _init_special_name for one name, name_dict
\* being what splitname returned for it.
InitSpecialName(table, name_dict) ==
    IF name_dict.last = <<>> THEN table
    ELSE
        LET last_str == JoinSp(name_dict.last)
            enclosed == ~NotEnclosed(last_str)
            last == IF enclosed
                    THEN SplitWords(Slice(last_str, 1, Len(last_str) - 1))
                    ELSE name_dict.last
            withLast == IF enclosed THEN Put(table, last, name_dict)
                        ELSE table
            von == JoinSp(name_dict.von)
            mb == match_braces(von)
        IN  IF name_dict.von = <<>> THEN withLast
            ELSE IF /\ mb # <<>>
                    /\ Last(mb)[1] = 0
                    /\ Last(mb)[2] = 2
                    /\ isupper(von[2])
            THEN Put(withLast,
                     SplitWords(<<von[2]>> \o Slice(von, 3, Len(von))) \o last,
                     name_dict)
            ELSE withLast

\* _init_special_names and the loops of _init_special_name over the names
\* of all entries, in order.
RECURSIVE InitSpecialNames(_, _)
InitSpecialNames(table, dicts) ==
    IF dicts = <<>> THEN table
    ELSE InitSpecialNames(InitSpecialName(table, Head(dicts)), Tail(dicts))

\* _init_partial_special_names: words[1 + i:] for every key of two or more
\* words and every i.
InitPartialSpecialNames(table) ==
    UNION {{SubSeq(k, j, Len(k)) : j \in 2..Len(k)} : k \in DOMAIN table}

\* _is_special_name(first, last)
is_special_name(table, first, last) ==
    /\ last \in DOMAIN table
    /\ NameFormatter_format_first_name(JoinSp(first))
            = JoinSp(table[last].first)

\* What _split_name returns: the dictionary, the key of the registered entry
\* it was taken from if any, whether it is an object of its own or the
\* registered object itself, and how many words the loop popped.
ReturnOriginal(name_dict, steps, ranOut) ==
    [dict |-> name_dict, from |-> <<>>, own |-> TRUE, steps |-> steps,
     exhausted |-> ranOut]

\* ReturnMatch handing out the registered dictionary itself.
ReturnMatchShared(table, key, steps) ==
    [dict |-> table[key], from |-> <<key>>, own |-> FALSE, steps |-> steps,
     exhausted |-> FALSE]

\* return prev_s_name.copy()
ReturnMatch(table, key, steps) ==
    [dict |-> table[key], from |-> <<key>>, own |-> TRUE, steps |-> steps,
     exhausted |-> FALSE]

\* The while loop of _split_name; prev is <<>> for None and otherwise holds
\* the key of the entry prev_s_name refers to.
RECURSIVE ScanWords(_, _, _, _, _, _, _)
ScanWords(table, partial, name_dict, words, last, prev, steps) ==
    IF words = <<>> THEN ReturnOriginal(name_dict, steps, TRUE)
    ELSE
        LET rest == Front(words)
            grown == <<Last(words)>> \o last
            seen == IF is_special_name(table, rest, grown)
                    THEN <<grown>> ELSE prev
        IN  IF grown \notin partial
            THEN IF seen # <<>>
                 THEN ReturnMatch(table, seen[1], steps + 1)
                 ELSE ReturnOriginal(name_dict, steps + 1, FALSE)
            ELSE ScanWords(table, partial, name_dict, rest, grown, seen,
                           steps + 1)

\* _split_name after its call of splitname returned name_dict.
split_name(table, partial, name_dict) ==
    IF Len(name_dict.first) + Len(name_dict.von) <= 1 \/ name_dict.last = <<>>
    THEN ReturnOriginal(name_dict, 0, FALSE)
    ELSE ScanWords(table, partial, name_dict,
                   name_dict.first \o name_dict.von
                       \o Slice(name_dict.last, 0, 1),
                   Slice(name_dict.last, 1, Len(name_dict.last)), <<>>, 0)

\* The dictionary _format_name hands to _join_name.
FormattedDict(name_dict) ==
    IF name_dict.blank THEN name_dict
    ELSE [name_dict EXCEPT
            !.first = <<NameFormatter_format_first_name(JoinSp(@))>>]

\* The table after _format_name assigned name_dict["first"] in the
\* dictionary r.dict that _split_name returned: an object of its own leaves
\* the table alone, the registered object changes under its key.
TableAfterFormat(table, r) ==
    IF r.own \/ r.dict.blank THEN table
    ELSE [table EXCEPT ![r.from[1]] = FormattedDict(r.dict)]

----------------------------------------------------------------------------
(* Inputs *)

\* Longest raw input string.
MaxLen == 5
\* Most words and most commas of a structured input name.
MaxNameWords == 4
MaxCommas == 3

Alphabet == {"A", "b", "{", "}", BS, " ", ","}

RawNames == UNION {[1..k -> Alphabet] : k \in 0..MaxLen}

NameWords == {<<"A">>, <<"A", "a", "a">>, <<"b", "b">>}
Comma == <<",">>
NameItems == NameWords \cup {Comma}

Count(q, S) == Cardinality({i \in 1..Len(q) : q[i] \in S})

ItemSeqs ==
    {q \in UNION {[1..k -> NameItems] : k \in 0..(MaxNameWords + MaxCommas)} :
        Count(q, NameWords) <= MaxNameWords /\ Count(q, {Comma}) <= MaxCommas}

\* The items in order, two adjacent words separated by one space.
RECURSIVE Spell(_)
Spell(q) ==
    IF q = <<>> THEN <<>>
    ELSE IF Len(q) > 1 /\ q[1] # Comma /\ q[2] # Comma
    THEN q[1] \o <<" ">> \o Spell(Tail(q))
    ELSE q[1] \o Spell(Tail(q))

StructuredNames == {Spell(q) : q \in ItemSeqs}

\* Most words of a last name handed to a renderer.
MaxLastWords == 3

FirstChoices == {<<>>, << <<"A", ".">> >>}
VonChoices == {<<>>, << <<"b", "b">> >>, << <<"B", "b">> >>}
JrChoices == {<<>>, << <<"J", "r">> >>}
LastWords == {<<"a">>, <<"{", "a">>, <<"a", "}">>, <<"{", "a", "}">>,
              <<"{">>, <<"}">>}
LastChoices == UNION {[1..k -> LastWords] : k \in 0..MaxLastWords}

RenderInputs ==
    {[blank |-> FALSE, first |-> f, von |-> v, last |-> l, jr |-> j] :
        f \in FirstChoices, v \in VonChoices, l \in LastChoices,
        j \in JrChoices}

\* Most pipe-separated parts of a configuration value.
MaxCfgParts == 3

CfgParts == {<<"A", "a", "a">>, <<"b", "b">>, <<"C", "c">>,
             <<" ", "C", "c", " ">>, <<"b", "b", " ", "A", "a", "a">>}

CfgValues ==
    {Join(q, <<"|">>) : q \in UNION {[1..k -> CfgParts] : k \in 1..MaxCfgParts}}

\* Most words of the first section of a sectioned input name.
MaxSectionWords == 4

\* An uppercase word, a lowercase word, a caseless word and an initial.
SectionWords == {<<"A", "a">>, <<"b", "b">>, <<"1", "1">>, <<"A", ".">>}

\* What follows the first section: nothing, or sections after commas.
SectionTails == {<<>>, <<",">>, <<",", " ", "C", "c">>,
                 <<",", " ", "J", "r", ",", " ", "C", "c">>,
                 <<",", ",", " ", "C", "c">>}

SectionedNames ==
    {JoinSp(q) \o t :
        q \in UNION {[1..k -> SectionWords] : k \in 0..MaxSectionWords},
        t \in SectionTails}

\* Longest string handed to the first-name abbreviation.
MaxWordLen == 3

WordAlphabet == {"A", "b", "{", BS, ".", " "}

AbbrevInputs == UNION {[1..k -> WordAlphabet] : k \in 0..MaxWordLen}

\* Most names of the corpus and most words of a name to format.
MaxCorpus == 2
MaxCandidateWords == 3

MDot == <<"M", ".">>
Manuel == <<"M", "a", "n", "u", "e", "l">>
Ojeda == <<"O", "j", "e", "d", "a">>
Aciego == <<"A", "c", "i", "e", "g", "o">>

Braced(ws) == <<"{">> \o JoinSp(ws) \o <<"}">>

\* What splitname returns for the corpus names "M. {Ojeda Aciego}",
\* "Manuel {Ojeda Aciego}", "{Aciego M. Ojeda Aciego}", "{M. Ojeda Aciego}"
\* and "{O}jeda {Aciego}, M.".
CorpusDicts ==
    {[EmptyParts EXCEPT !.first = <<MDot>>,
                        !.last = <<Braced(<<Ojeda, Aciego>>)>>],
     [EmptyParts EXCEPT !.first = <<Manuel>>,
                        !.last = <<Braced(<<Ojeda, Aciego>>)>>],
     [EmptyParts EXCEPT !.last = <<Braced(<<Aciego, MDot, Ojeda, Aciego>>)>>],
     [EmptyParts EXCEPT !.last = <<Braced(<<MDot, Ojeda, Aciego>>)>>],
     [EmptyParts EXCEPT !.first = <<MDot>>,
                        !.von = <<<<"{", "O", "}", "j", "e", "d", "a">>>>,
                        !.last = <<Braced(<<Aciego>>)>>]}

\* The corpora: up to MaxCorpus different names in any order.
Corpora ==
    {q \in UNION {[1..k -> CorpusDicts] : k \in 0..MaxCorpus} :
        \A i, j \in 1..Len(q) : q[i] = q[j] => i = j}

GivenNames == {MDot, Manuel}
CandidateWords == {MDot, Ojeda, Aciego}

\* The names to format: a given name followed by any further words.
CandidateSeqs ==
    {<<g>> \o q : g \in GivenNames,
        q \in UNION {[1..k -> CandidateWords] :
                        k \in 0..(MaxCandidateWords - 1)}}

\* The dictionaries splitname may return for a name to format: its words
\* cut into first, at most one word of von, and a last name.
Candidates ==
    {[EmptyParts EXCEPT !.first = Slice(ws, 0, i),
                        !.von = Slice(ws, i, j),
                        !.last = Slice(ws, j, Len(ws))] :
        <<ws, i, j>> \in {<<w, a, b>> \in
            CandidateSeqs \X (0..MaxCandidateWords)
                          \X (0..MaxCandidateWords) :
            a <= b /\ b <= a + 1 /\ b < Len(w)}}

----------------------------------------------------------------------------
(* Calls *)

\* No NameFormatter method was called yet.
NoResult == [call |-> "", arg |-> NoParts, special |-> FALSE,
             dict |-> NoParts, from |-> <<>>, own |-> TRUE, steps |-> 0,
             exhausted |-> FALSE]

Idle ==
    /\ err = ""
    /\ site = ""
    /\ sections = <<>>
    /\ cases = <<>>
    /\ out = <<>>
    /\ out2 = <<>>
    /\ variant = ""
    /\ synth = <<>>
    /\ special_names = <<>>
    /\ partial_special_names = {}
    /\ result = NoResult

InitWith(names) ==
    /\ corpus = <<>>
    /\ name \in names
    /\ strict \in BOOLEAN
    /\ pc = "start"
    /\ parts = NoParts
    /\ cfg = <<>>
    /\ Idle

Init == InitWith(RawNames)
InitNames == InitWith(StructuredNames)
InitSections == InitWith(SectionedNames)

InitRender ==
    /\ corpus = <<>>
    /\ name = <<>>
    /\ strict = TRUE
    /\ pc = "parts"
    /\ parts \in RenderInputs
    /\ cfg = <<>>
    /\ Idle

InitConfig ==
    /\ corpus = <<>>
    /\ name = <<>>
    /\ strict = TRUE
    /\ pc = "config"
    /\ parts = NoParts
    /\ cfg \in CfgValues
    /\ Idle

\* splitname(name, strict) up to the return of split_latex_to_sections.
Tokenize ==
    /\ pc = "start"
    /\ LET t == split_latex_to_sections(name, strict)
       IN  /\ err' = t.err
           /\ site' = t.site
           /\ sections' = (IF t.err = "" THEN t.sections ELSE <<>>)
           /\ cases' = (IF t.err = "" THEN t.cases ELSE <<>>)
           /\ pc' = (IF t.err = "" THEN "tokenized" ELSE "raised")
    /\ UNCHANGED <<formatter, name, strict, parts, out, out2, variant, cfg,
                   synth>>

\* The rest of splitname(name, strict).
Split ==
    /\ pc = "tokenized"
    /\ LET r == SplitSections([sections |-> sections, cases |-> cases], strict)
       IN  /\ err' = r.err
           /\ site' = r.site
           /\ parts' = r.parts
           /\ pc' = (IF r.err = "" THEN "split" ELSE "raised")
    /\ UNCHANGED <<formatter, name, strict, sections, cases, out, out2,
                   variant, cfg, synth>>

\* format_name(name)
FormatName ==
    /\ pc = "start"
    /\ strict
    /\ LET f == format_name(name)
       IN  /\ err' = f.err
           /\ site' = f.site
           /\ out' = f.out
           /\ pc' = (IF f.err = "" THEN "formatted" ELSE "format_raised")
    /\ UNCHANGED <<formatter, name, strict, sections, cases, parts, out2,
                   variant, cfg, synth>>

\* format_name applied to the string format_name returned.
FormatAgain ==
    /\ pc = "formatted"
    /\ LET f == format_name(out)
       IN  /\ err' = f.err
           /\ site' = f.site
           /\ out2' = f.out
           /\ pc' = "reformatted"
    /\ UNCHANGED <<formatter, name, strict, sections, cases, parts, out,
                   variant, cfg, synth>>

Next == Tokenize \/ Split \/ FormatName \/ FormatAgain

Spec == Init /\ [][Next]_vars
SpecNames == InitNames /\ [][Next]_vars
SpecSections == InitSections /\ [][Next]_vars

\* One renderer applied to the parts.
Render(module, rendered) ==
    /\ pc = "parts"
    /\ out' = rendered
    /\ variant' = module
    /\ pc' = "rendered"
    /\ UNCHANGED <<formatter, name, strict, err, site, sections, cases, parts,
                   out2, cfg, synth>>

\* NameFormatter._join_name(parts)
RenderJoinName == Render("bibfmt", join_name(parts))
\* authfmt_t.name_dict_to_str(parts)
RenderT == Render("authfmt_t", name_dict_to_str_t(parts))
\* authfmt.name_dict_to_str(parts)
RenderOld == Render("authfmt", name_dict_to_str(parts))

NextRender == RenderJoinName \/ RenderT \/ RenderOld

SpecRender == InitRender /\ [][NextRender]_vars

\* One iteration of the loop of config_special_names over the table.
Configure(module, e) ==
    /\ pc = "config"
    /\ err' = e.err
    /\ site' = e.site
    /\ synth' = e.synth
    /\ parts' = e.parts
    /\ out' = e.out
    /\ variant' = module
    /\ pc' = (IF e.err = "" THEN "configured" ELSE "config_raised")
    /\ UNCHANGED <<formatter, name, strict, sections, cases, out2, cfg>>

\* authfmt_t.config_special_names
ConfigureT == Configure("authfmt_t", config_special_names_t(cfg))
\* authfmt.config_special_names
ConfigureOld == Configure("authfmt", config_special_names(cfg))

NextConfig == ConfigureT \/ ConfigureOld

SpecConfig == InitConfig /\ [][NextConfig]_vars

InitAbbrev ==
    /\ corpus = <<>>
    /\ name \in AbbrevInputs
    /\ strict = TRUE
    /\ pc = "word"
    /\ parts = NoParts
    /\ cfg = <<>>
    /\ Idle

\* One copy of the abbreviation applied to the string name.
Abbreviate(module, abbreviated) ==
    /\ pc = "word"
    /\ out' = abbreviated
    /\ variant' = module
    /\ pc' = "abbreviated"
    /\ UNCHANGED <<formatter, name, strict, err, site, sections, cases, parts,
                   out2, cfg, synth>>

\* authfmt_t.format_first_name(name)
AbbreviateT == Abbreviate("authfmt_t", format_first_name(name))
\* authfmt.format_first_name(name)
AbbreviateOld == Abbreviate("authfmt", format_first_name_old(name))
\* NameFormatter._format_first_name(name)
AbbreviateNF == Abbreviate("bibfmt", NameFormatter_format_first_name(name))

NextAbbrev == AbbreviateT \/ AbbreviateOld \/ AbbreviateNF

SpecAbbrev == InitAbbrev /\ [][NextAbbrev]_vars

InitFormatter ==
    /\ corpus \in Corpora
    /\ name = <<>>
    /\ strict = TRUE
    /\ pc = "corpus"
    /\ parts \in Candidates
    /\ cfg = <<>>
    /\ Idle

\* NameFormatter(dbs)
Construct ==
    /\ pc = "corpus"
    /\ special_names' = InitSpecialNames(<<>>, corpus)
    /\ partial_special_names' = InitPartialSpecialNames(special_names')
    /\ pc' = "ready"
    /\ UNCHANGED <<name, strict, err, site, sections, cases, parts, out, out2,
                   variant, cfg, synth, corpus, result>>

\* self._is_special_name(first, last) for the first name and the last name
\* of the candidate.
IsSpecialName ==
    /\ pc = "ready"
    /\ result' = [NoResult EXCEPT
            !.call = "_is_special_name",
            !.arg = parts,
            !.special = is_special_name(special_names, parts.first,
                                        parts.last)]
    /\ out' = <<>>
    /\ UNCHANGED <<name, strict, pc, err, site, sections, cases, parts, out2,
                   variant, cfg, synth, corpus, special_names,
                   partial_special_names>>

\* self._format_name(name), splitname returning name_dict for name.
FormatCall(name_dict) ==
    /\ pc = "ready"
    /\ LET r == split_name(special_names, partial_special_names, name_dict)
       IN  /\ result' = [call |-> "_format_name", arg |-> name_dict,
                         special |-> FALSE, dict |-> r.dict,
                         from |-> r.from, own |-> r.own, steps |-> r.steps,
                         exhausted |-> r.exhausted]
           /\ out' = join_name(FormattedDict(r.dict))
           /\ special_names' = TableAfterFormat(special_names, r)
    /\ UNCHANGED <<name, strict, pc, err, site, sections, cases, parts, out2,
                   variant, cfg, synth, corpus, partial_special_names>>

\* The candidate is formatted.
FormatCandidate == FormatCall(parts)

\* A name of the corpus is formatted, as format_names does for every entry.
FormatCorpusName == \E i \in 1..Len(corpus) : FormatCall(corpus[i])

NextFormatter ==
    Construct \/ IsSpecialName \/ FormatCandidate \/ FormatCorpusName

SpecFormatter == InitFormatter /\ [][NextFormatter]_vars

----------------------------------------------------------------------------
(* Notions the properties are stated with *)

BraceSites == {"unmatched", "unterminated"}
MalformedSites == BraceSites \cup {"commas", "trailing"}

\* The string the last call handed to the tokenizer.
Scanned == IF pc = "reformatted" THEN out ELSE name

CountChar(s, c) == Cardinality({i \in 1..Len(s) : s[i] = c})

\* Opening minus closing braces among the first k characters.
Depth(s, k) ==
    Cardinality({i \in 1..k : s[i] = "{"}) - Cardinality({i \in 1..k : s[i] = "}"})

\* Every brace character counted: no closing brace without an open one
\* before it, and none left open.
RawBalanced(s) ==
    /\ \A k \in 1..Len(s) : Depth(s, k) >= 0
    /\ Depth(s, Len(s)) = 0

\* The same, a backslash taking the character after it out of the count;
\* d is the number of braces open before position i.
RECURSIVE BalancedFrom(_, _, _)
BalancedFrom(s, i, d) ==
    IF i > Len(s) THEN d = 0
    ELSE IF s[i] = BS THEN BalancedFrom(s, i + 2, d)
    ELSE IF s[i] = "{" THEN BalancedFrom(s, i + 1, d + 1)
    ELSE IF s[i] = "}" THEN d > 0 /\ BalancedFrom(s, i + 1, d - 1)
    ELSE BalancedFrom(s, i + 1, d)

UnescapedBalanced(s) == BalancedFrom(s, 1, 0)

\* One brace pair opens at the first character and closes at the last.
EnclosedByOnePair(s) ==
    /\ Len(s) >= 2
    /\ s[1] = "{"
    /\ s[Len(s)] = "}"
    /\ \A k \in 1..(Len(s) - 1) : Depth(s, k) >= 1
    /\ Depth(s, Len(s) - 1) = 1

\* The words of a string without braces: its non-empty pieces between spaces.
WordsIn(s) == SelectSeq(SplitOn(s, " "), LAMBDA w : w # <<>>)

RECURSIVE Flatten(_)
Flatten(ss) == IF ss = <<>> THEN <<>> ELSE Head(ss) \o Flatten(Tail(ss))

IsSuffix(a, b) == Len(a) <= Len(b) /\ SubSeq(b, Len(b) - Len(a) + 1, Len(b)) = a

AllWords(p) == p.first \o p.von \o p.last \o p.jr

PlainWord(w) == w # <<>> /\ \A i \in 1..Len(w) : isalpha(w[i])

----------------------------------------------------------------------------
(* Properties *)

\* C1: format_name is idempotent on its own output: when format_name
\* returned out for the name and returns out2 for out, out2 equals out.
C1_FormatNameIdempotent ==
    (pc = "reformatted" /\ err = "") => out2 = out

\* C2: in strict mode each of the four malformed-name conditions ends the
\* call with the error kind InvalidName and no other.
C2_MalformedRaisesInvalidName ==
    (strict /\ site \in MalformedSites) => err = "InvalidName"

\* C3: with strict_mode=False splitname returns for every input and never
\* raises.
C3_NonStrictNeverRaises ==
    ~strict => err = ""

\* C4: whenever splitname returns a non-empty dictionary, its last part is
\* a non-empty word list.
C4_LastNeverEmpty ==
    (pc = "split" /\ ~parts.blank) => parts.last # <<>>

\* C5: in non-strict mode the words after the third top-level comma are
\* merged into last (they end it), and first holds the third part only.
C5_ExtraPartsMergedIntoLast ==
    LET pieces == SplitOn(name, ",")
        extra == Flatten([i \in 1..(Len(pieces) - 3) |-> WordsIn(pieces[i + 3])])
    IN  (/\ pc = "split" /\ ~strict /\ Len(pieces) > 3
         /\ \A i \in 1..Len(pieces) : WordsIn(pieces[i]) # <<>>) =>
            /\ IsSuffix(extra, parts.last)
            /\ parts.first = WordsIn(pieces[3])

C7_SingleSpaces ==
    LET n == Len(AllWords(parts))
        plain == \A i \in 1..n :
                    AllWords(parts)[i] # <<>> /\ ~Contains(AllWords(parts)[i], " ")
    IN  (pc = "rendered" /\ plain) =>
            /\ CountChar(out, " ") = (IF n = 0 THEN 0 ELSE n - 1)
            /\ out # <<>> => (out[1] # " " /\ Last(out) # " ")
            /\ \A i \in 1..(Len(out) - 1) : ~(out[i] = " " /\ out[i + 1] = " ")

\* C8: the joined last name L is emitted as "{" + L + "}" if it holds a
\* space and no single brace pair opens at its first and closes at its last
\* character, and unchanged otherwise; the output is then the non-empty
\* parts with one space between them.
C8_LastWrappedOnce ==
    LET L == JoinSp(parts.last)
        emitted == IF Contains(L, " ") /\ ~EnclosedByOnePair(L)
                   THEN <<"{">> \o L \o <<"}">> ELSE L
        von == IF variant = "bibfmt"
               THEN ProtectVon(JoinSp(parts.von)) ELSE JoinSp(parts.von)
        pieces == SelectSeq(<<JoinSp(parts.first), von, emitted, JoinSp(parts.jr)>>,
                            LAMBDA x : x # <<>>)
    IN  (pc = "rendered" /\ variant \in {"bibfmt", "authfmt_t"}) =>
            out = JoinSp(pieces)

C8_Witness ==
    /\ pc = "rendered"
    /\ variant = "bibfmt"
    /\ parts.last = << <<"{", "a">>, <<"a", "}">> >>
    /\ parts.first = <<>> /\ parts.von = <<>> /\ parts.jr = <<>>
    /\ out = <<"{", "a", " ", "a", "}">>

\* C9: in non-strict mode no brace error is raised, an unmatched closing
\* brace puts "{" in front of its word, open braces are closed at the end of
\* the input, and every word returned has balanced unescaped braces.
C9_NonStrictRepairsBraces ==
    ~strict =>
        /\ site \notin BraceSites
        /\ pc = "tokenized" =>
            /\ \A i \in 1..Len(sections) : \A j \in 1..Len(sections[i]) :
                    UnescapedBalanced(sections[i][j])
            /\ (name # <<>> /\ Last(name) = "}" /\ PlainWord(Front(name))) =>
                    sections = << << <<"{">> \o name >> >>
            /\ (name # <<>> /\ Head(name) = "{" /\ PlainWord(Tail(name))) =>
                    sections = << << name \o <<"}">> >> >>

C9_Witness ==
    /\ ~strict
    /\ pc = "tokenized"
    /\ name = <<"A", "b", "}">>
    /\ sections = << << <<"{", "A", "b", "}">> >> >>

\* C10 as stated: in strict mode an input whose braces balance, every brace
\* character counted, raises no brace error.
C10_RawBalancedNeverRaises ==
    (strict /\ RawBalanced(Scanned)) => site \notin BraceSites

\* C10 as amended: in strict mode an input whose braces balance, the
\* character after a backslash not counted, raises no brace error.
C10_UnescapedBalancedNeverRaises ==
    (strict /\ UnescapedBalanced(Scanned)) => site \notin BraceSites

C10_Witness ==
    /\ strict
    /\ pc = "tokenized"
    /\ name = <<"{", BS, "}", "}">>
    /\ sections = << << name >> >>


\* The name was tokenized without a top-level comma into n words and
\* splitname has finished, by returning or by raising.
OneSectionOf(n) ==
    /\ pc \in {"split", "raised"}
    /\ Len(sections) = 1
    /\ Len(sections[1]) = n

\* C11: a name without a top-level comma that tokenizes to a single word N
\* is split into last = [N] with first, von and jr empty, and one that
\* tokenizes to two words A B into first = [A], last = [B] with von and jr
\* empty, whatever the letter case of the words.
C11_OneAndTwoWords ==
    /\ OneSectionOf(1) =>
            /\ pc = "split"
            /\ parts = [EmptyParts EXCEPT !.last = sections[1]]
    /\ OneSectionOf(2) =>
            /\ pc = "split"
            /\ parts = [EmptyParts EXCEPT !.first = <<sections[1][1]>>,
                                          !.last = <<sections[1][2]>>]

\* Two words, the first of them lowercase, were split into first and last.
C11_Witness ==
    /\ OneSectionOf(2)
    /\ cases[1][1] = 0
    /\ parts.first = <<sections[1][1]>>
    /\ parts.last = <<sections[1][2]>>


\* w.startswith("{\\"): the two characters open brace, backslash.
StartsEscaped(w) == Len(w) >= 2 /\ w[1] = "{" /\ w[2] = BS

\* C12: each copy of the first-name abbreviation returns w unchanged if and
\* only if w has at most two characters or starts with an open brace and a
\* backslash, and otherwise returns the first character of w and a period;
\* the three copies return the same string for every w.
C12_Abbreviation ==
    pc = "abbreviated" =>
        /\ out = name <=> (Len(name) <= 2 \/ StartsEscaped(name))
        /\ out # name => out = <<name[1], ".">>
        /\ format_first_name(name) = format_first_name_old(name)
        /\ format_first_name(name) = NameFormatter_format_first_name(name)

\* A string of more than two characters was kept for its leading escape.
C12_Witness ==
    /\ pc = "abbreviated"
    /\ Len(name) > 2
    /\ StartsEscaped(name)
    /\ out = name


\* The name was tokenized without a top-level comma into three or more
\* words and splitname has finished, by returning or by raising.
LongOneSection ==
    /\ pc \in {"split", "raised"}
    /\ Len(sections) = 1
    /\ Len(sections[1]) >= 3

\* A single-letter initial: a letter followed by a period.
IsInitial(w) == Len(w) = 2 /\ isalpha(w[1]) /\ w[2] = "."

\* The 1-based positions of the uppercase-signaled words.
UpperPositions(cs) == {i \in 1..Len(cs) : cs[i] = 1}

\* The k-th position of U counted from its end.
FromEnd(U, k) == CHOOSE i \in U : Cardinality({j \in U : j > i}) = k - 1

\* The split at the third and second uppercase-signaled words from the end.
SplitAtUppercase(ws, cs) ==
    LET U == UpperPositions(cs)
    IN  IF Cardinality(U) > 2
        THEN [EmptyParts EXCEPT
                !.first = Slice(ws, 0, FromEnd(U, 3)),
                !.von = Slice(ws, FromEnd(U, 3), FromEnd(U, 2) - 1),
                !.last = Slice(ws, FromEnd(U, 2) - 1, Len(ws))]
        ELSE [EmptyParts EXCEPT !.first = Slice(ws, 0, 1),
                                !.last = Slice(ws, 1, Len(ws))]

\* C13: a one-section name of three or more words whose second word is not
\* a single-letter initial is split at its uppercase-signaled words only:
\* with more than two of them, first ends at the third of them from the end,
\* von lies strictly between that word and the second from the end, and last
\* is the rest; with two or fewer, first is the first word and last the
\* remaining words. Caseless and lowercase words are not counted.
C13_SplitAtUppercaseWords ==
    (LongOneSection /\ ~IsInitial(sections[1][2])) =>
        /\ pc = "split"
        /\ parts = SplitAtUppercase(sections[1], cases[1])


\* The sections and their cases once splitname has dropped an empty final
\* section.
KeptSections == IF Last(sections) = <<>> THEN Front(sections) ELSE sections
KeptCases == IF Last(sections) = <<>> THEN Front(cases) ELSE cases

\* splitname returned the parts of a name in one of the comma forms.
CommaFormSplit ==
    /\ pc = "split"
    /\ sections # <<>>
    /\ Len(KeptSections) \in {2, 3}

\* The length of the longest prefix whose final word is not
\* uppercase-signaled, 0 when every word is.
LongestVonPrefix(cs) ==
    IF \A i \in 1..Len(cs) : cs[i] = 1 THEN 0
    ELSE CHOOSE i \in 1..Len(cs) :
            cs[i] # 1 /\ \A j \in (i + 1)..Len(cs) : cs[j] = 1

\* C14: in the comma forms, when the first section has two or more words,
\* von is the longest prefix of that section whose final word is lowercase
\* or caseless and last is the rest of the section; when that prefix is the
\* whole section or every word is uppercase-signaled, von is empty and the
\* whole section is last.
C14_VonIsLongestPrefix ==
    (CommaFormSplit /\ Len(KeptSections[1]) >= 2) =>
        LET sec0 == KeptSections[1]
            k == LongestVonPrefix(KeptCases[1])
            split == IF k = Len(sec0) THEN 0 ELSE k
        IN  /\ parts.von = Slice(sec0, 0, split)
            /\ parts.last = Slice(sec0, split, Len(sec0))


\* C18: whenever splitname returns a non-empty result, the parts hold the
\* tokenized words once each and in order: for one section, first, von and
\* last concatenated are the section; for two or three sections, von and
\* last concatenated are the first section, jr is the middle section of
\* three and empty otherwise, and first is the final section.
C18_PartsPartitionWords ==
    (pc = "split" /\ ~parts.blank) =>
        LET secs == KeptSections
            n == Len(secs)
        IN  IF n = 1
            THEN /\ parts.first \o parts.von \o parts.last = secs[1]
                 /\ parts.jr = <<>>
            ELSE /\ parts.von \o parts.last = secs[1]
                 /\ parts.jr = (IF n = 3 THEN secs[2] ELSE <<>>)
                 /\ parts.first = secs[n]

\* A name of three sections was split into a von part, a last name, a jr
\* part and a first name.
C18_Witness ==
    /\ CommaFormSplit
    /\ Len(KeptSections) = 3
    /\ parts.von # <<>>
    /\ parts.last # <<>>
    /\ parts.jr # <<>>
    /\ parts.first # <<>>


\* The last call was _is_special_name(first, last) for the parts of the
\* candidate.
AskedSpecial == pc = "ready" /\ result.call = "_is_special_name"

\* C15: _is_special_name(first, last) is true exactly when last is a
\* registered key and the abbreviation of the joined candidate first name
\* equals the abbreviation of the joined first name of the registered
\* entry, each side abbreviated on its own; so the candidate Manuel Ojeda
\* Aciego matches the key registered from Manuel {Ojeda Aciego} as it
\* matches the one registered from M. {Ojeda Aciego}.
C15_BothSidesAbbreviated ==
    AskedSpecial =>
        (result.special <=>
            /\ result.arg.last \in DOMAIN special_names
            /\ NameFormatter_format_first_name(JoinSp(result.arg.first))
                 = NameFormatter_format_first_name(
                        JoinSp(special_names[result.arg.last].first)))


\* The last call was _format_name for a name that splitname split into the
\* dictionary result.arg.
Formatted == pc = "ready" /\ result.call = "_format_name"

\* The scan of _split_name runs for a dictionary with a last name and two
\* or more words of first and von.
Scans(d) == Len(d.first) + Len(d.von) > 1 /\ d.last # <<>>

\* The words the scan pops, and the last-name tuple and the remaining first
\* name after k of them were popped.
ScanList(d) == d.first \o d.von \o Slice(d.last, 0, 1)
GrownLast(d, k) ==
    SubSeq(ScanList(d), Len(ScanList(d)) - k + 1, Len(ScanList(d)))
        \o Slice(d.last, 1, Len(d.last))
RemainingFirst(d, k) == SubSeq(ScanList(d), 1, Len(ScanList(d)) - k)

\* The step at which the grown tuple stops being a partial suffix, or the
\* last step when it never does.
StopStep(d) ==
    LET n == Len(ScanList(d))
        off == {k \in 1..n : GrownLast(d, k) \notin partial_special_names}
    IN  IF off = {} THEN n ELSE CHOOSE k \in off : \A j \in off : k <= j

\* The steps of the scan at which the grown tuple was a registered special
\* name with matching first name.
MatchedSteps(d) ==
    IF Scans(d)
    THEN {k \in 1..StopStep(d) :
            is_special_name(special_names, RemainingFirst(d, k),
                            GrownLast(d, k))}
    ELSE {}

LatestMatch(d) ==
    CHOOSE k \in MatchedSteps(d) : \A j \in MatchedSteps(d) : j <= k

\* C16: the right-to-left scan of _split_name ends after at most
\* len(first) + len(von) + 1 steps; when at some step the grown last-name
\* tuple was a registered special name with matching first name, a copy of
\* the entry matched last is returned, and the original split is returned
\* only when no step matched -- also when the scan consumes every word
\* while the grown tuple is still a partial suffix.
C16_ScanReturnsLatestMatch ==
    Formatted =>
        LET d == result.arg
        IN  /\ result.steps <= Len(d.first) + Len(d.von) + 1
            /\ MatchedSteps(d) # {} =>
                    /\ result.dict = special_names[GrownLast(d, LatestMatch(d))]
                    /\ result.own
            /\ MatchedSteps(d) = {} => result.dict = d


\* The table as the constructor built it.
BuiltTable == InitSpecialNames(<<>>, corpus)

\* C17: once the NameFormatter is constructed, after any sequence of
\* formatting calls the special-name table (its keys and the word lists of
\* every entry) and the partial-suffix set are what the constructor built,
\* also when the lookup returned a registered entry and its first name was
\* assigned; so the last call returned what it returns on a formatter that
\* formatted nothing before.
C17_TablesReadOnly ==
    pc = "ready" =>
        LET table == BuiltTable
            partial == InitPartialSpecialNames(table)
        IN  /\ special_names = table
            /\ partial_special_names = partial
            /\ Formatted =>
                    out = join_name(FormattedDict(
                            split_name(table, partial, result.arg).dict))

\* The lookup returned a registered entry and _format_name replaced its
\* first-name list by a different one.
C17_Witness ==
    /\ Formatted
    /\ result.from # <<>>
    /\ result.dict = special_names[result.from[1]]
    /\ FormattedDict(result.dict) # result.dict

============================================================================
